---- MODULE Spec2Model ----
(***************************************************************************)
(* micro-oc (src/src/main.rs): a command dispatcher over the NVAPI library. *)
(* One run of the process is one behaviour: initialize, enumerate, info,   *)
(* then the arm of `match matches.subcommand()`.  Every library call is    *)
(* one step that either succeeds or fails (the `.unwrap()` then panics).   *)
(*                                                                         *)
(* The command line is fixed when the process starts, but the program      *)
(* reads it piecewise: the subcommand at line 105, `ids` at line 50, each  *)
(* flag at line 29.  The model draws each piece where it is read.          *)
(* Command lines that clap itself rejects in get_matches (line 95) make no *)
(* library call and are left out.                                          *)
(*                                                                         *)
(* The library is opaque: a call that succeeds is recorded as the GPU's    *)
(* setting, a call that fails is taken to change nothing.                  *)
(***************************************************************************)
EXTENDS Integers, Sequences, FiniteSets, TLC

\* ---- bounds ------------------------------------------------------------
MaxGpus == 2          \* GPUs the library may enumerate: 0..MaxGpus
MaxIds == 2           \* tokens in the positional `ids` list: 1..MaxIds
MaxVals == 2          \* tokens in one flag's value list: 1..MaxVals
MaxLimits == 1        \* power / sensor limits in a GpuInfo: 0..MaxLimits

\* ---- Option<T> as a sequence of length <= 1 ------------------------------
None == <<>>
Some(v) == <<v>>
IsSome(o) == Len(o) = 1
Get(o) == o[1]

Last(s) == s[Len(s)]

\* ---- tokens: a command-line word is a sequence of characters -------------
DigitChars == <<"0", "1", "2", "3", "4", "5", "6", "7", "8", "9">>

DigitVals == [c \in {DigitChars[d] : d \in 1..10} |-> (CHOOSE d \in 1..10 : DigitChars[d] = c) - 1]

IsDigit(c) == c \in DOMAIN DigitVals

DigitVal(c) == DigitVals[c]

RECURSIVE Digits(_)
\* value of a run of decimal digits, most significant first
Digits(s) == IF s = <<>> THEN 0 ELSE 10 * Digits(SubSeq(s, 1, Len(s) - 1)) + DigitVal(Last(s))

\* T::from_str_radix(v, 10).ok(): an optional sign ("-" only for a signed T),
\* then at least one digit and nothing else.  The tokens of the model have at
\* most three characters, so the overflow error cannot arise.
FromStrRadix(s, signed) ==
  LET body == IF s # <<>> /\ (s[1] = "+" \/ (signed /\ s[1] = "-")) THEN Tail(s) ELSE s
      neg == s # <<>> /\ signed /\ s[1] = "-"
  IN IF body = <<>> \/ \E k \in 1..Len(body) : ~IsDigit(body[k])
     THEN None
     ELSE Some(IF neg THEN 0 - Digits(body) ELSE Digits(body))

Flags == {"gpuclock", "memclock", "plimit", "tlimit", "vlock"}

\* parse_arg::<i32> for gpuclock, memclock, tlimit; parse_arg::<u32> for plimit, vlock
Signed(param) == param \in {"gpuclock", "memclock", "tlimit"}

\* ---- the command lines of the model ---------------------------------------
\* `ids` tokens: every index 0..MaxGpus-1 and a word that is no number.
IdTokens == {<<DigitChars[d + 1]>> : d \in 0..(MaxGpus - 1)} \cup {<<"x">>}

\* what matches.values_of("ids") can return: None, or one to MaxIds tokens
IdsArgs == {None} \cup {Some(s) : s \in UNION {[1..n -> IdTokens] : n \in 1..MaxIds}}

\* every flag's tokens start with a digit of its own, so values of different
\* flags never coincide
FlagDigit(param) ==
  CASE param = "gpuclock" -> "1"
    [] param = "memclock" -> "2"
    [] param = "plimit" -> "3"
    [] param = "tlimit" -> "4"
    [] param = "vlock" -> "5"

\* the command lines come in two kinds: one value for all positions of a flag,
\* or a different value at every position
Samples == {"equal", "distinct"}

\* the j-th value token of a flag: "<d>0" everywhere, or "<d><j>" with a sign at
\* the even positions ("-" for the i32 flags, "+" for the u32 flags)
SampleToken(param, sample, j) ==
  IF sample = "equal"
  THEN <<FlagDigit(param), "0">>
  ELSE IF j % 2 = 1
  THEN <<FlagDigit(param), DigitChars[j + 1]>>
  ELSE <<IF Signed(param) THEN "-" ELSE "+", FlagDigit(param), DigitChars[j + 1]>>

\* words that T::from_str_radix rejects: no number, and for u32 a negative one
BadTokens(param) == IF Signed(param) THEN {<<"x">>} ELSE {<<"x">>, <<"-", "3">>}

\* what inner_matches.values_of(param) can return: None, or k >= 1 tokens
\* (clap rejects a flag given without a value); the last token may be a bad one
FlagArgs(param, sample) ==
  {None}
  \cup {Some([j \in 1..k |-> SampleToken(param, sample, j)]) : k \in 1..MaxVals}
  \cup {Some([j \in 1..k |-> IF j = k THEN t ELSE SampleToken(param, sample, j)]) :
          k \in 1..MaxVals, t \in BadTokens(param)}

\* controllers.len() that thermal_limit_info can report
ControllerCounts == {0, 1, 2}

\* parse_arg with the count test `values.len() > expected_len`
ParseArg_LenGt(values, param, expected_len) ==
  IF values = None
  THEN [kind |-> "ok", value |-> None, message |-> <<>>]
  ELSE LET toks == Get(values)
           nums == [j \in 1..Len(toks) |-> FromStrRadix(toks[j], Signed(param))]
       IN IF \E j \in 1..Len(toks) : nums[j] = None
          THEN [kind |-> "panic", value |-> None, message |-> <<>>]
          ELSE IF Len(toks) > expected_len
          THEN [kind |-> "exit", value |-> None,
                message |-> <<param, Len(toks), expected_len>>]
          ELSE [kind |-> "ok", value |-> Some([j \in 1..Len(toks) |-> Get(nums[j])]),
                message |-> <<>>]

\* parse_arg that turns a flag not supplied into expected_len zeros
ParseArg_DefaultZero(values, param, expected_len) ==
  IF values = None
  THEN [kind |-> "ok", value |-> Some([j \in 1..expected_len |-> 0]), message |-> <<>>]
  ELSE LET toks == Get(values)
           nums == [j \in 1..Len(toks) |-> FromStrRadix(toks[j], Signed(param))]
       IN IF \E j \in 1..Len(toks) : nums[j] = None
          THEN [kind |-> "panic", value |-> None, message |-> <<>>]
          ELSE IF Len(toks) # expected_len
          THEN [kind |-> "exit", value |-> None,
                message |-> <<param, Len(toks), expected_len>>]
          ELSE [kind |-> "ok", value |-> Some([j \in 1..Len(toks) |-> Get(nums[j])]),
                message |-> <<>>]

\* parse_arg: every token is parsed (a bad token panics in the map), then the
\* count is compared with expected_len (error.exit(): the usage error).
ParseArg(values, param, expected_len) ==
  IF values = None
  THEN [kind |-> "ok", value |-> None, message |-> <<>>]
  ELSE LET toks == Get(values)
           nums == [j \in 1..Len(toks) |-> FromStrRadix(toks[j], Signed(param))]
       IN IF \E j \in 1..Len(toks) : nums[j] = None
          THEN [kind |-> "panic", value |-> None, message |-> <<>>]
          ELSE IF Len(toks) # expected_len
          THEN [kind |-> "exit", value |-> None,
                message |-> <<param, Len(toks), expected_len>>]
          ELSE [kind |-> "ok", value |-> Some([j \in 1..Len(toks) |-> Get(nums[j])]),
                message |-> <<>>]

\* select_gus that pairs every position with the position instead of the index
SelectGus_ByPosition(n, values) ==
  IF values = None
  THEN [kind |-> "panic", value |-> <<>>]
  ELSE LET toks == Get(values)
           idx == [j \in 1..Len(toks) |-> FromStrRadix(toks[j], FALSE)]
       IN IF \E j \in 1..Len(toks) : idx[j] = None \/ Get(idx[j]) >= n
          THEN [kind |-> "panic", value |-> <<>>]
          ELSE [kind |-> "ok", value |-> [j \in 1..Len(toks) |-> j - 1]]

\* select_gus: values_of("ids").unwrap(), then per token the index is parsed
\* (unwrap) and gpus[idx] is taken (bounds check); the result pairs every
\* position with its global index.  n is gpus.len().
SelectGus(n, values) ==
  IF values = None
  THEN [kind |-> "panic", value |-> <<>>]
  ELSE LET toks == Get(values)
           idx == [j \in 1..Len(toks) |-> FromStrRadix(toks[j], FALSE)]
       IN IF \E j \in 1..Len(toks) : idx[j] = None \/ Get(idx[j]) >= n
          THEN [kind |-> "panic", value |-> <<>>]
          ELSE [kind |-> "ok", value |-> [j \in 1..Len(toks) |-> Get(idx[j])]]

\* vec![temp_limit]: one entry whatever the number of controllers
TempsVec_Single(temp_limit, len) == <<temp_limit>>

\* vec![temp_limit; controllers.len()]
TempsVec(temp_limit, len) == [j \in 1..len |-> temp_limit]

\* vec![power_limit]
PowerVec(power_limit) == <<power_limit>>

\* reset deltas without the memory clock
ResetDeltas_GraphicsOnly == << [domain |-> "Graphics", delta |-> 0] >>

\* the deltas of the reset arm
ResetDeltas ==
  << [domain |-> "Graphics", delta |-> 0], [domain |-> "Memory", delta |-> 0] >>

\* format!("GPU #{}", i) of the list arm, i the enumerate() index
RowLabel(i) == i

\* ---- the library's side ----------------------------------------------------
\* factory defaults a GPU reports in GpuInfo (PowerLimit.default, SensorLimit.default)
PowerDefault(g, j) == 100 + 10 * g + j

SensorDefault(g, j) == 80 + 2 * g + j

GpuInfos(g) ==
  {[power_limits |-> [j \in 1..np |-> PowerDefault(g, j)],
    sensor_limits |-> [j \in 1..ns |-> SensorDefault(g, j)]] : np \in 0..MaxLimits, ns \in 0..MaxLimits}

\* a setting of a GPU is None while this process has not written it, or
\* Some(the last argument the library accepted)
Untouched == [gclk |-> None, mclk |-> None, plimit |-> None, slimit |-> None, vlock |-> None]

\* set_pstates: every (P0, domain, delta) of the call replaces that domain's delta
ApplyDeltas(h, deltas) ==
  LET pick(dom, old) ==
        IF \E k \in 1..Len(deltas) : deltas[k].domain = dom
        THEN Some(deltas[CHOOSE k \in 1..Len(deltas) :
                     deltas[k].domain = dom /\ \A m \in (k + 1)..Len(deltas) : deltas[m].domain # dom].delta)
        ELSE old
  IN [h EXCEPT !.gclk = pick("Graphics", h.gclk), !.mclk = pick("Memory", h.mclk)]

Call(op, gpu, arg, ret, ok) == [op |-> op, gpu |-> gpu, arg |-> arg, ret |-> ret, ok |-> ok]

WriteOps == {"set_pstates", "set_power_limits", "set_sensor_limits", "set_vfp_lock", "reset_vfp_lock"}

\* ---- control flow ------------------------------------------------------------
Done == <<"done">>

\* the `set` arm with vlock parsed after the loop
SetArm_LateVlock ==
  << <<"select_gus">>, <<"parse_arg", "gpuclock">>, <<"parse_arg", "memclock">>,
     <<"parse_arg", "plimit">>, <<"parse_arg", "tlimit">>, <<"for">>,
     <<"parse_arg", "vlock">> >>

\* the `set` arm, lines 129-137: select_gus, five parse_arg, then the for loop
SetArm ==
  << <<"select_gus">>, <<"parse_arg", "gpuclock">>, <<"parse_arg", "memclock">>,
     <<"parse_arg", "plimit">>, <<"parse_arg", "tlimit">>, <<"parse_arg", "vlock">>,
     <<"for">> >>

After(label) ==
  LET k == CHOOSE k \in 1..Len(SetArm) : SetArm[k] = label
  IN IF k < Len(SetArm) THEN SetArm[k + 1] ELSE Done

\* the loop body with the memory clock block before the graphics clock block
LoopBody_MemoryFirst == <<"memclock", "gpuclock", "plimit", "tlimit", "vlock">>

\* the body of the for loop, lines 138-199: the five `match` blocks in order
LoopBody == <<"gpuclock", "memclock", "plimit", "tlimit", "vlock">>

AfterSetting(param) ==
  LET k == CHOOSE k \in 1..Len(LoopBody) : LoopBody[k] = param
  IN IF k < Len(LoopBody) THEN <<"set", LoopBody[k + 1]>> ELSE <<"for">>

\* a dispatch whose no-subcommand arm falls into the reset arm
ArmEntry_NoneResets(sub) ==
  CASE sub = "list" -> <<"list">>
    [] sub = "set" -> <<"select_gus">>
    [] sub = "reset" -> <<"reset", "for">>
    [] sub = "" -> <<"reset", "for">>

\* match matches.subcommand(), lines 105-228
ArmEntry(sub) ==
  CASE sub = "list" -> <<"list">>
    [] sub = "set" -> SetArm[1]
    [] sub = "reset" -> <<"reset", "for">>
    [] sub = "" -> Done

\* a library result whose error is dropped instead of unwrapped
Unwrap_GoOn(ok, next) == [pc |-> next, outcome |-> IF next = Done THEN "ok" ELSE "running"]

\* .unwrap() of a library result: go on, or panic
Unwrap(ok, next) ==
  IF ok
  THEN [pc |-> next, outcome |-> IF next = Done THEN "ok" ELSE "running"]
  ELSE [pc |-> Done, outcome |-> "panic"]

\* ---- state -------------------------------------------------------------------
VARIABLES
  pc,             \* where the process is: a label, <<"parse_arg", param>>, <<"set", param>>, ...
  outcome,        \* "running", "ok" (main returned), "usage" (error.exit()), "panic"
  err,            \* Some(<<param, got, expected>>) of the usage error
  subcommand,     \* matches.subcommand(), "unread" before line 105
  sample,         \* the kind of value tokens the flags of `set` are given
  matches,        \* argument name -> values_of(name), for the names read so far
  gpus,           \* gpus.len(): handle k is the GPU with enumeration index k
  info,           \* the Vec<GpuInfo> of lines 100-103
  selected_gpus,  \* select_gus' result: position -> global index
  parsed,         \* param -> parse_arg's Option<Vec<T>>, for the params parsed so far
  i,              \* 1-based position of the for loops (the code's i + 1)
  controllers,    \* Some(controllers.len()) between thermal_limit_info and set_sensor_limits
  reset_info,     \* Some(info) of line 214 while one GPU is being reset
  table,          \* rows built by the list arm
  out,            \* stdout: progress lines and table rows
  calls,          \* every library call made, in order
  hw              \* the settings of the GPUs

vars ==
  <<pc, outcome, err, subcommand, sample, matches, gpus, info, selected_gpus, parsed, i,
    controllers, reset_info, table, out, calls, hw>>

Init ==
  /\ pc = <<"initialize">>
  /\ outcome = "running"
  /\ err = None
  /\ subcommand = "unread"
  /\ sample = "none"
  /\ matches = <<>>
  /\ gpus = 0
  /\ info = <<>>
  /\ selected_gpus = <<>>
  /\ parsed = <<>>
  /\ i = 0
  /\ controllers = None
  /\ reset_info = None
  /\ table = <<>>
  /\ out = <<>>
  /\ calls = <<>>
  /\ hw = [g \in 0..(MaxGpus - 1) |-> Untouched]

\* move to a label; reaching the end of main is the "ok" outcome
Goto(label) ==
  /\ pc' = label
  /\ outcome' = IF label = Done THEN "ok" ELSE outcome

Panic ==
  /\ pc' = Done
  /\ outcome' = "panic"

\* one library call followed by .unwrap(): logged, applied to the hardware
\* when it succeeds, and the process goes on or panics
Library(call, newhw, next) ==
  \E ok \in BOOLEAN :
    /\ calls' = Append(calls, [call EXCEPT !.ok = ok, !.ret = IF ok THEN @ ELSE <<>>])
    /\ hw' = IF ok THEN newhw ELSE hw
    /\ pc' = Unwrap(ok, next).pc
    /\ outcome' = Unwrap(ok, next).outcome

\* ---- lines 97-103 ---------------------------------------------------------------
Initialize ==
  /\ pc = <<"initialize">>
  /\ Library(Call("initialize", None, <<>>, <<>>, TRUE), hw, <<"enumerate">>)
  /\ UNCHANGED <<err, subcommand, sample, matches, gpus, info, selected_gpus, parsed, i,
                 controllers, reset_info, table, out>>

Enumerate ==
  /\ pc = <<"enumerate">>
  /\ \E n \in 0..MaxGpus :
       /\ Library(Call("enumerate", None, <<>>, <<n>>, TRUE), hw,
                  IF n = 0 THEN <<"dispatch">> ELSE <<"info">>)
       /\ gpus' = IF Last(calls').ok THEN n ELSE gpus
  /\ UNCHANGED <<err, subcommand, sample, matches, info, selected_gpus, parsed, i,
                 controllers, reset_info, table, out>>

Info ==
  /\ pc = <<"info">>
  /\ Len(info) < gpus
  /\ LET g == Len(info) IN
       /\ Library(Call("info", Some(g), <<>>, <<>>, TRUE), hw,
                  IF g + 1 = gpus THEN <<"dispatch">> ELSE <<"info">>)
       /\ info' = IF Last(calls').ok THEN Append(info, [gpu |-> g]) ELSE info
  /\ UNCHANGED <<err, subcommand, sample, matches, gpus, selected_gpus, parsed, i,
                 controllers, reset_info, table, out>>

\* ---- line 105: match matches.subcommand() ---------------------------------------
Dispatch ==
  /\ pc = <<"dispatch">>
  /\ \E sub \in {"list", "set", "reset", ""} :
       /\ subcommand' = sub
       /\ sample' \in (IF sub = "set" THEN Samples ELSE {"none"})
       /\ Goto(ArmEntry(sub))
  /\ UNCHANGED <<err, matches, gpus, info, selected_gpus, parsed, i, controllers,
                 reset_info, table, out, calls, hw>>

\* ---- list arm, lines 106-127 -----------------------------------------------------
ListRow ==
  /\ pc = <<"list">>
  /\ Len(table) < gpus
  /\ LET k == Len(table) IN
       /\ Library(Call("gpu_id", Some(k), <<>>, <<>>, TRUE), hw, <<"list">>)
       /\ table' = IF Last(calls').ok
                   THEN Append(table, [label |-> RowLabel(k), info |-> info[k + 1], gpu |-> k])
                   ELSE table
  /\ UNCHANGED <<err, subcommand, sample, matches, gpus, info, selected_gpus, parsed, i,
                 controllers, reset_info, out>>

PrintTable ==
  /\ pc = <<"list">>
  /\ Len(table) = gpus
  /\ out' = out \o table
  /\ Goto(Done)
  /\ UNCHANGED <<err, subcommand, sample, matches, gpus, info, selected_gpus, parsed, i,
                 controllers, reset_info, table, calls, hw>>

\* ---- set arm: validation, lines 129-135 ------------------------------------------
SelectGusStep ==
  /\ pc = <<"select_gus">>
  /\ \E a \in IdsArgs :
       LET r == SelectGus(gpus, a) IN
         /\ matches' = matches @@ ("ids" :> a)
         /\ IF r.kind = "ok"
            THEN selected_gpus' = r.value /\ Goto(After(pc))
            ELSE selected_gpus' = selected_gpus /\ Panic
  /\ UNCHANGED <<err, subcommand, sample, gpus, info, parsed, i, controllers, reset_info,
                 table, out, calls, hw>>

ParseArgStep ==
  /\ pc[1] = "parse_arg"
  /\ LET param == pc[2] IN
     \E a \in FlagArgs(param, sample) :
       LET r == ParseArg(a, param, Len(selected_gpus)) IN
         /\ matches' = matches @@ (param :> a)
         /\ CASE r.kind = "ok" ->
                   parsed' = parsed @@ (param :> r.value) /\ err' = err /\ Goto(After(pc))
              [] r.kind = "exit" ->
                   parsed' = parsed /\ err' = Some(r.message) /\ pc' = Done /\ outcome' = "usage"
              [] r.kind = "panic" ->
                   parsed' = parsed /\ err' = err /\ Panic
  /\ UNCHANGED <<subcommand, sample, gpus, info, selected_gpus, i, controllers, reset_info,
                 table, out, calls, hw>>

\* ---- set arm: the for loop, lines 137-200 -----------------------------------------
Supplied(param) == param \in DOMAIN parsed /\ IsSome(parsed[param])

\* println!("Setting GPU #{} <text> to {:?}", global_idx, value)
Line(text, global_idx, value) == [text |-> text, gpu |-> global_idx, value |-> value]

\* selected_gpus.iter().enumerate(): the next position, or the end of the arm
ForSelected ==
  /\ pc = <<"for">>
  /\ IF i < Len(selected_gpus)
     THEN i' = i + 1 /\ Goto(<<"set", LoopBody[1]>>)
     ELSE i' = i /\ Goto(After(pc))
  /\ UNCHANGED <<err, subcommand, sample, matches, gpus, info, selected_gpus, parsed,
                 controllers, reset_info, table, out, calls, hw>>

\* the `None => ()` arm of a setting's match
SkipSetting ==
  /\ pc[1] = "set"
  /\ ~Supplied(pc[2])
  /\ Goto(AfterSetting(pc[2]))
  /\ UNCHANGED <<err, subcommand, sample, matches, gpus, info, selected_gpus, parsed, i,
                 controllers, reset_info, table, out, calls, hw>>

\* v[i] of a supplied flag; i is the 1-based position
ArgAt(param) == Get(parsed[param])[i]

\* the `Some` arm of a setting: v[i] (a panic when i is out of bounds), the
\* progress line, the library call with .unwrap()
Setting(param, text, op, arg, newhw) ==
  /\ pc = <<"set", param>>
  /\ Supplied(param)
  /\ IF i > Len(Get(parsed[param]))
     THEN Panic /\ UNCHANGED <<out, calls, hw>>
     ELSE /\ out' = Append(out, Line(text, selected_gpus[i], ArgAt(param)))
          /\ Library(Call(op, Some(selected_gpus[i]), arg, <<>>, TRUE), newhw,
                     AfterSetting(param))

GraphicsDelta(x) == << [domain |-> "Graphics", delta |-> x] >>

MemoryDelta(x) == << [domain |-> "Memory", delta |-> x] >>

\* lines 140-149
SetGraphicsClock ==
  /\ Setting("gpuclock", "graphics clock", "set_pstates", GraphicsDelta(ArgAt("gpuclock")),
             [hw EXCEPT ![selected_gpus[i]] = ApplyDeltas(@, GraphicsDelta(ArgAt("gpuclock")))])
  /\ UNCHANGED <<err, subcommand, sample, matches, gpus, info, selected_gpus, parsed, i,
                 controllers, reset_info, table>>

\* lines 152-161
SetMemoryClock ==
  /\ Setting("memclock", "memory clock", "set_pstates", MemoryDelta(ArgAt("memclock")),
             [hw EXCEPT ![selected_gpus[i]] = ApplyDeltas(@, MemoryDelta(ArgAt("memclock")))])
  /\ UNCHANGED <<err, subcommand, sample, matches, gpus, info, selected_gpus, parsed, i,
                 controllers, reset_info, table>>

\* lines 164-174
SetPowerLimit ==
  /\ Setting("plimit", "power limit", "set_power_limits", PowerVec(ArgAt("plimit")),
             [hw EXCEPT ![selected_gpus[i]].plimit = Some(PowerVec(ArgAt("plimit")))])
  /\ UNCHANGED <<err, subcommand, sample, matches, gpus, info, selected_gpus, parsed, i,
                 controllers, reset_info, table>>

\* line 179: gpu.inner().thermal_limit_info().unwrap()
ThermalLimitInfo ==
  /\ pc = <<"set", "tlimit">>
  /\ Supplied("tlimit")
  /\ controllers = None
  /\ \E n \in ControllerCounts :
       /\ Library(Call("thermal_limit_info", Some(selected_gpus[i]), <<>>, <<n>>, TRUE),
                  hw, pc)
       /\ controllers' = IF Last(calls').ok THEN Some(n) ELSE controllers
  /\ UNCHANGED <<err, subcommand, sample, matches, gpus, info, selected_gpus, parsed, i,
                 reset_info, table, out>>

\* lines 180-185
SetSensorLimits ==
  /\ IsSome(controllers)
  /\ Setting("tlimit", "temperature limit", "set_sensor_limits",
             TempsVec(ArgAt("tlimit"), Get(controllers)),
             [hw EXCEPT ![selected_gpus[i]].slimit =
                          Some(TempsVec(ArgAt("tlimit"), Get(controllers)))])
  /\ controllers' = None
  /\ UNCHANGED <<err, subcommand, sample, matches, gpus, info, selected_gpus, parsed, i,
                 reset_info, table>>

\* lines 190-199
SetVfpLock ==
  /\ Setting("vlock", "lock voltage", "set_vfp_lock", Some(ArgAt("vlock")),
             [hw EXCEPT ![selected_gpus[i]].vlock = Some(Some(ArgAt("vlock")))])
  /\ UNCHANGED <<err, subcommand, sample, matches, gpus, info, selected_gpus, parsed, i,
                 controllers, reset_info, table>>

\* ---- reset arm, lines 202-225 ------------------------------------------------------
\* gpus.iter().enumerate() and println!("Resetting GPU #{}", i)
ForGpus ==
  /\ pc = <<"reset", "for">>
  /\ IF i < gpus
     THEN /\ i' = i + 1
          /\ out' = Append(out, Line("reset", i, None))
          /\ Goto(<<"reset", "set_pstates">>)
     ELSE i' = i /\ out' = out /\ Goto(Done)
  /\ UNCHANGED <<err, subcommand, sample, matches, gpus, info, selected_gpus, parsed,
                 controllers, reset_info, table, calls, hw>>

\* line 212
ResetPstates ==
  /\ pc = <<"reset", "set_pstates">>
  /\ Library(Call("set_pstates", Some(i - 1), ResetDeltas, <<>>, TRUE),
             [hw EXCEPT ![i - 1] = ApplyDeltas(@, ResetDeltas)], <<"reset", "info">>)
  /\ UNCHANGED <<err, subcommand, sample, matches, gpus, info, selected_gpus, parsed, i,
                 controllers, reset_info, table, out>>

\* line 214
ResetInfo ==
  /\ pc = <<"reset", "info">>
  /\ \E gi \in GpuInfos(i - 1) :
       /\ Library(Call("info", Some(i - 1), <<>>, <<gi>>, TRUE), hw,
                  <<"reset", "set_power_limits">>)
       /\ reset_info' = IF Last(calls').ok THEN Some(gi) ELSE reset_info
  /\ UNCHANGED <<err, subcommand, sample, matches, gpus, info, selected_gpus, parsed, i,
                 controllers, table, out>>

\* info.power_limits.iter().map(|pl| pl.default)
PowerDefaults(gi) == gi.power_limits

\* info.sensor_limits.iter().map(|pl| pl.default)
SensorDefaults(gi) == gi.sensor_limits

\* line 217
ResetPowerLimits ==
  /\ pc = <<"reset", "set_power_limits">>
  /\ Library(Call("set_power_limits", Some(i - 1), PowerDefaults(Get(reset_info)), <<>>, TRUE),
             [hw EXCEPT ![i - 1].plimit = Some(PowerDefaults(Get(reset_info)))],
             <<"reset", "set_sensor_limits">>)
  /\ UNCHANGED <<err, subcommand, sample, matches, gpus, info, selected_gpus, parsed, i,
                 controllers, reset_info, table, out>>

\* line 220
ResetSensorLimits ==
  /\ pc = <<"reset", "set_sensor_limits">>
  /\ Library(Call("set_sensor_limits", Some(i - 1), SensorDefaults(Get(reset_info)), <<>>, TRUE),
             [hw EXCEPT ![i - 1].slimit = Some(SensorDefaults(Get(reset_info)))],
             <<"reset", "reset_vfp_lock">>)
  /\ UNCHANGED <<err, subcommand, sample, matches, gpus, info, selected_gpus, parsed, i,
                 controllers, reset_info, table, out>>

\* line 223; info goes out of scope at the end of the body
ResetVfpLock ==
  /\ pc = <<"reset", "reset_vfp_lock">>
  /\ Library(Call("reset_vfp_lock", Some(i - 1), <<>>, <<>>, TRUE),
             [hw EXCEPT ![i - 1].vlock = Some(None)], <<"reset", "for">>)
  /\ reset_info' = None
  /\ UNCHANGED <<err, subcommand, sample, matches, gpus, info, selected_gpus, parsed, i,
                 controllers, table, out>>

Next ==
  \/ Initialize
  \/ Enumerate
  \/ Info
  \/ Dispatch
  \/ ListRow
  \/ PrintTable
  \/ SelectGusStep
  \/ ParseArgStep
  \/ ForSelected
  \/ SkipSetting
  \/ SetGraphicsClock
  \/ SetMemoryClock
  \/ SetPowerLimit
  \/ ThermalLimitInfo
  \/ SetSensorLimits
  \/ SetVfpLock
  \/ ForGpus
  \/ ResetPstates
  \/ ResetInfo
  \/ ResetPowerLimits
  \/ ResetSensorLimits
  \/ ResetVfpLock

Spec == Init /\ [][Next]_vars

\* ==== properties =================================================================
\* The command line as typed, read back from `matches`.
IdsRead == "ids" \in DOMAIN matches

IdsGiven == IdsRead /\ IsSome(matches["ids"])

\* N: the number of GPU indices on the command line
NumIds == IF IdsGiven THEN Len(Get(matches["ids"])) ELSE 0

\* the global index typed at position p (no GPU when the token is no number)
IdAt(p) ==
  LET r == FromStrRadix(Get(matches["ids"])[p], FALSE)
  IN IF IsSome(r) THEN Get(r) ELSE 0 - 1

Given(param) == param \in DOMAIN matches /\ IsSome(matches[param])

NumVals(param) == Len(Get(matches[param]))

\* the value typed for param at position p (of a token that is a number)
ValAt(param, p) ==
  LET r == FromStrRadix(Get(matches[param])[p], Signed(param))
  IN IF IsSome(r) THEN Get(r) ELSE 0

WellFormed(param) ==
  \A p \in 1..NumVals(param) : IsSome(FromStrRadix(Get(matches[param])[p], Signed(param)))

IsWrite(e) == e.op \in WriteOps

Writes == SelectSeq(calls, IsWrite)

NoFailedCall == \A k \in 1..Len(calls) : calls[k].ok

\* the flag a library write of the set arm serves
FlagOf(e) ==
  CASE e.op = "set_pstates" -> IF e.arg[1].domain = "Graphics" THEN "gpuclock" ELSE "memclock"
    [] e.op = "set_power_limits" -> "plimit"
    [] e.op = "set_sensor_limits" -> "tlimit"
    [] e.op = "set_vfp_lock" -> "vlock"
    [] OTHER -> "none"

TextOf(param) ==
  CASE param = "gpuclock" -> "graphics clock"
    [] param = "memclock" -> "memory clock"
    [] param = "plimit" -> "power limit"
    [] param = "tlimit" -> "temperature limit"
    [] param = "vlock" -> "lock voltage"
    [] OTHER -> "none"

\* write e is the write of flag param to GPU g with value v
Carries(e, param, g, v) ==
  /\ FlagOf(e) = param
  /\ e.gpu = Some(g)
  /\ CASE param \in {"gpuclock", "memclock"} -> Len(e.arg) = 1 /\ e.arg[1].delta = v
       [] param \in {"plimit", "vlock"} -> e.arg = <<v>>
       [] OTHER -> \A j \in 1..Len(e.arg) : e.arg[j] = v

\* the setting of GPU g that flag param writes
Field(g, param) ==
  CASE param = "gpuclock" -> hw[g].gclk
    [] param = "memclock" -> hw[g].mclk
    [] param = "plimit" -> hw[g].plimit
    [] param = "tlimit" -> hw[g].slimit
    [] param = "vlock" -> hw[g].vlock

\* how many of the first k - 1 writes serve the same flag as the k-th
EarlierSame(w, k) == Cardinality({m \in 1..(k - 1) : FlagOf(w[m]) = FlagOf(w[k])})

\* ---- C1 ----------------------------------------------------------------------------
\* C1: in `set` with N selected GPUs, for every flag read so far: a flag that is
\* not supplied is accepted (parsed as None) whatever N is; a supplied flag is
\* accepted only with exactly N values, and then all N are kept; a supplied flag
\* with k # N values ends the process (the usage error names the flag, k and N,
\* unless a token that is no number panicked first); k = N never gives the
\* usage error.
C1_CountMatch ==
  subcommand = "set" =>
    \A f \in Flags \cap DOMAIN matches :
      LET n == Len(selected_gpus) IN
        /\ matches[f] = None => f \in DOMAIN parsed /\ parsed[f] = None
        /\ Given(f) /\ NumVals(f) # n =>
             /\ f \notin DOMAIN parsed
             /\ pc = Done
             /\ outcome \in {"usage", "panic"}
             /\ WellFormed(f) => outcome = "usage" /\ err = Some(<<f, NumVals(f), n>>)
        /\ Given(f) /\ NumVals(f) = n =>
             /\ f \in DOMAIN parsed \/ (pc = Done /\ outcome = "panic" /\ ~WellFormed(f))
             /\ f \in DOMAIN parsed => IsSome(parsed[f]) /\ Len(Get(parsed[f])) = n

\* two GPUs selected, one flag accepted with two values, one accepted as not
\* supplied, and a later flag with a wrong count ended the run
C1_Witness ==
  /\ outcome = "usage"
  /\ Len(selected_gpus) = 2
  /\ \E f \in DOMAIN parsed : IsSome(parsed[f])
  /\ \E f \in DOMAIN parsed : parsed[f] = None

\* ---- C2 ----------------------------------------------------------------------------
\* C2: whenever `set` is aborted by its arguments, every token on the command
\* line being a number and every index naming an enumerated GPU, the outcome is
\* the usage error and not a panic; this covers N = 0 (no `ids` at all), where
\* every supplied flag has a count other than N.  The flags are read after
\* select_gus, so the outcome at N = 0 is the same for every list of flags.
C2_UsageOnMismatch ==
  ( /\ subcommand = "set"
    /\ pc = Done
    /\ outcome # "ok"
    /\ NoFailedCall
    /\ IdsRead
    /\ \A p \in 1..NumIds :
         /\ IsSome(FromStrRadix(Get(matches["ids"])[p], FALSE))
         /\ IdAt(p) < gpus
    /\ \A f \in Flags : Given(f) => WellFormed(f) )
  => outcome = "usage"

\* ---- C3 ----------------------------------------------------------------------------
\* C3: in `set`, the p-th write that serves flag f goes to the GPU whose global
\* index was typed at position p of `ids` and carries the value typed at
\* position p of f, through the library call of f; the progress line printed
\* with it names that global index and value; and when `set` returns, every
\* position and supplied flag has had its write.
C3_Alignment ==
  subcommand = "set" =>
    LET w == Writes IN
      /\ Len(out) = Len(w)
      /\ \A k \in 1..Len(w) :
           LET f == FlagOf(w[k])
               p == EarlierSame(w, k) + 1
           IN /\ Given(f)
              /\ p <= NumIds
              /\ p <= NumVals(f)
              /\ LET g == IdAt(p)
                     v == ValAt(f, p)
                 IN Carries(w[k], f, g, v) /\ out[k] = Line(TextOf(f), g, v)
      /\ pc = Done /\ outcome = "ok" =>
           \A p \in 1..NumIds : \A f \in Flags :
             Given(f) =>
               \E k \in 1..Len(w) :
                 EarlierSame(w, k) + 1 = p /\ Carries(w[k], f, IdAt(p), ValAt(f, p))

\* `1 0 set --gpuclock a b --vlock c d` with a # b has run to its end
C3_Witness ==
  /\ subcommand = "set"
  /\ pc = Done
  /\ outcome = "ok"
  /\ NumIds = 2
  /\ IdAt(1) = 1
  /\ IdAt(2) = 0
  /\ Given("gpuclock")
  /\ Given("vlock")
  /\ ValAt("gpuclock", 1) # ValAt("gpuclock", 2)

\* ---- C4 ----------------------------------------------------------------------------
\* C4: when `reset` returns, every enumerated GPU has both P0 clock deltas 0,
\* its power limits and its sensor limits set to the defaults its GpuInfo
\* reported (one per reported limit), and its voltage lock cleared.  `ids` is
\* never read by this arm.
C4_ResetAll ==
  subcommand = "reset" /\ pc = Done /\ outcome = "ok" =>
    /\ ~IdsRead
    /\ \A g \in 0..(gpus - 1) :
         LET ks == {k \in 1..Len(calls) : calls[k].op = "info" /\ calls[k].gpu = Some(g)}
             last == CHOOSE k \in ks : \A m \in ks : m <= k
             gi == Get(calls[last].ret)
         IN /\ hw[g].gclk = Some(0)
            /\ hw[g].mclk = Some(0)
            /\ hw[g].plimit = Some(gi.power_limits)
            /\ hw[g].slimit = Some(gi.sensor_limits)
            /\ hw[g].vlock = Some(None)

\* reset has returned with two GPUs, one of which reports a power limit
C4_Witness ==
  /\ subcommand = "reset"
  /\ pc = Done
  /\ outcome = "ok"
  /\ gpus >= 2
  /\ \E g \in 0..(gpus - 1) : IsSome(hw[g].plimit) /\ Len(Get(hw[g].plimit)) >= 1

\* ---- C5 ----------------------------------------------------------------------------
\* C5: a failed library call is the last call the process makes: the process
\* is over, by panic; the writes that succeeded before it stay applied (no
\* rollback) and no GPU has a setting that no successful write gave it.
C5_FailStop ==
  \A k \in 1..Len(calls) :
    ~calls[k].ok =>
      /\ k = Len(calls)
      /\ pc = Done
      /\ outcome = "panic"
      /\ \A g \in DOMAIN hw :
           hw[g] # Untouched <=>
             \E m \in 1..(k - 1) : IsWrite(calls[m]) /\ calls[m].gpu = Some(g)

\* a write failed after two writes had succeeded, and one enumerated GPU was
\* never written
C5_Witness ==
  /\ outcome = "panic"
  /\ Len(calls) > 0
  /\ ~Last(calls).ok
  /\ IsWrite(Last(calls))
  /\ Len(Writes) >= 3
  /\ \E g \in 0..(gpus - 1) : hw[g] = Untouched

\* ---- C6 ----------------------------------------------------------------------------
\* the supplied flags in the order graphics clock, memory clock, power limit,
\* temperature limit, voltage lock
GivenFlags == SelectSeq(<<"gpuclock", "memclock", "plimit", "tlimit", "vlock">>, Given)

\* what GPU g's setting for flag param is after a write of v
FieldHolds(g, param, v) ==
  CASE param \in {"gpuclock", "memclock"} -> Field(g, param) = Some(v)
    [] param = "plimit" -> Field(g, param) = Some(<<v>>)
    [] param = "vlock" -> Field(g, param) = Some(Some(v))
    [] OTHER -> /\ IsSome(Field(g, param))
                /\ \A j \in 1..Len(Get(Field(g, param))) : Get(Field(g, param))[j] = v

\* C6: the writes of `set` are, in order, position 1's supplied settings in the
\* order graphics clock, memory clock, power limit, temperature limit, voltage
\* lock, then position 2's, and so on; when `set` returns all of them were
\* made, and a GPU named more than once holds the values of its last position.
C6_Sequential ==
  subcommand = "set" =>
    LET w == Writes
        m == Len(GivenFlags)
    IN /\ \A k \in 1..Len(w) :
            /\ m > 0
            /\ LET p == ((k - 1) \div m) + 1
                   f == GivenFlags[((k - 1) % m) + 1]
               IN /\ p <= NumIds
                  /\ p <= NumVals(f)
                  /\ Carries(w[k], f, IdAt(p), ValAt(f, p))
       /\ pc = Done /\ outcome = "ok" =>
            /\ Len(w) = NumIds * m
            /\ \A p \in 1..NumIds : \A f \in Flags :
                 Given(f) /\ (\A q \in (p + 1)..NumIds : IdAt(q) # IdAt(p)) =>
                   FieldHolds(IdAt(p), f, ValAt(f, p))

\* one GPU named twice with two different clock values and a second flag
C6_Witness ==
  /\ subcommand = "set"
  /\ pc = Done
  /\ outcome = "ok"
  /\ NumIds = 2
  /\ IdAt(1) = IdAt(2)
  /\ Given("gpuclock")
  /\ Given("memclock")
  /\ Given("tlimit")
  /\ ValAt("gpuclock", 1) # ValAt("gpuclock", 2)

\* ---- C7 ----------------------------------------------------------------------------
\* C7: `list` and a run without subcommand make no library write and leave
\* every setting of every GPU as it was; without subcommand nothing is
\* printed; `list` prints, when it returns, one row per enumerated GPU in
\* enumeration order, row k labelled k counting from 0 and showing GPU k, and
\* prints nothing when it does not return.
C7_ReadOnly ==
  subcommand \in {"list", ""} =>
    /\ Writes = <<>>
    /\ \A g \in DOMAIN hw : hw[g] = Untouched
    /\ subcommand = "" => out = <<>> /\ pc = Done /\ outcome = "ok"
    /\ subcommand = "list" /\ outcome = "ok" =>
         /\ Len(out) = gpus
         /\ \A k \in 1..gpus : out[k] = [label |-> k - 1, info |-> [gpu |-> k - 1], gpu |-> k - 1]
    /\ subcommand = "list" /\ outcome # "ok" => out = <<>>

\* list has printed two rows
C7_Witness ==
  /\ subcommand = "list"
  /\ outcome = "ok"
  /\ Len(out) >= 2

\* ---- C8 ----------------------------------------------------------------------------
\* C8: in `set`, once any per-GPU library call has been made, `ids` has been
\* resolved and all five flags have been parsed; and a run that its arguments
\* ended (usage error or panic, no library call having failed) has written
\* nothing, printed no progress line and left every GPU as it was.
C8_ValidateFirst ==
  subcommand = "set" =>
    /\ (\E k \in 1..Len(calls) : calls[k].op \in WriteOps \cup {"thermal_limit_info"}) =>
         /\ IdsRead
         /\ Flags \subseteq DOMAIN matches
         /\ Flags \subseteq DOMAIN parsed
    /\ pc = Done /\ outcome \in {"usage", "panic"} /\ NoFailedCall =>
         /\ Writes = <<>>
         /\ out = <<>>
         /\ \A g \in DOMAIN hw : hw[g] = Untouched

\* the last flag checked, vlock, has the wrong count after a supplied flag was accepted
C8_Witness ==
  /\ subcommand = "set"
  /\ outcome = "usage"
  /\ IsSome(err)
  /\ Get(err)[1] = "vlock"
  /\ \E f \in DOMAIN parsed : IsSome(parsed[f])

\* ---- C9 ----------------------------------------------------------------------------
\* C9: in `set`, every write serves a supplied flag and goes to a GPU named in
\* `ids`; thermal_limit_info is called only when tlimit is supplied; a setting
\* whose flag is not supplied, and every setting of a GPU not named in `ids`,
\* is as it was; when `set` returns, the writes made are exactly one per
\* position and supplied flag.
C9_Frame ==
  subcommand = "set" =>
    LET w == Writes IN
      /\ \A k \in 1..Len(w) :
           /\ Given(FlagOf(w[k]))
           /\ \E p \in 1..NumIds : w[k].gpu = Some(IdAt(p))
      /\ \A k \in 1..Len(calls) : calls[k].op = "thermal_limit_info" => Given("tlimit")
      /\ \A g \in DOMAIN hw : \A f \in Flags :
           ~Given(f) \/ (\A p \in 1..NumIds : IdAt(p) # g) => Field(g, f) = None
      /\ pc = Done /\ outcome = "ok" =>
           /\ {<<Get(w[k].gpu), FlagOf(w[k])>> : k \in 1..Len(w)}
                = {<<IdAt(p), f>> : p \in 1..NumIds, f \in {x \in Flags : Given(x)}}
           /\ Len(w) = NumIds * Cardinality({x \in Flags : Given(x)})

\* set has returned having written one of two GPUs with some flags but not others
C9_Witness ==
  /\ subcommand = "set"
  /\ pc = Done
  /\ outcome = "ok"
  /\ gpus = 2
  /\ NumIds = 1
  /\ Given("memclock")
  /\ Given("plimit")
  /\ ~Given("gpuclock")
  /\ ~Given("vlock")
  /\ Len(Writes) = 2

\* ---- C10 ---------------------------------------------------------------------------
\* C10: in `set`, a set_sensor_limits call directly follows a successful
\* thermal_limit_info call on the same GPU and carries as many entries as that
\* call reported controllers, each the tlimit value of the position (none for
\* zero controllers); a set_power_limits call carries exactly one entry, the
\* plimit value of the position.
C10_Vectors ==
  subcommand = "set" =>
    \A k \in 1..Len(calls) :
      LET e == calls[k]
          p == 1 + Cardinality({m \in 1..(k - 1) : calls[m].op = e.op})
      IN /\ e.op = "set_sensor_limits" =>
              /\ k > 1
              /\ calls[k - 1].op = "thermal_limit_info"
              /\ calls[k - 1].ok
              /\ calls[k - 1].gpu = e.gpu
              /\ Len(e.arg) = Get(calls[k - 1].ret)
              /\ Given("tlimit")
              /\ p <= NumVals("tlimit")
              /\ \A j \in 1..Len(e.arg) : e.arg[j] = ValAt("tlimit", p)
         /\ e.op = "set_power_limits" =>
              /\ Given("plimit")
              /\ p <= NumVals("plimit")
              /\ e.arg = <<ValAt("plimit", p)>>

\* one sensor-limit write with no entry, one with two, and a power-limit write
C10_Witness ==
  /\ subcommand = "set"
  /\ \E k \in 1..Len(calls) : calls[k].op = "set_sensor_limits" /\ Len(calls[k].arg) = 0
  /\ \E k \in 1..Len(calls) : calls[k].op = "set_sensor_limits" /\ Len(calls[k].arg) = 2
  /\ \E k \in 1..Len(calls) : calls[k].op = "set_power_limits"

====
